---- MODULE Spec2Model ----
(***************************************************************************)
(* Model of cd6_map.py: create_ky6_map (the county/district overlay that   *)
(* builds the folium layer list and saves index.html) and the address      *)
(* search script embedded in the saved page (checkAddress, resetMap,       *)
(* checkIfInDistrict, showResult).                                         *)
(*                                                                         *)
(* Geometry.  The plane is a square cell complex.  A lattice point <<x,y>> *)
(* with x,y in 0..2*GridN stands for a vertex (both even), an open edge    *)
(* (one odd) or an open unit cell (both odd) of the complex; a geometry is *)
(* a closed union of such elements.  One cell is 0.2 degrees wide, so one  *)
(* lattice step is 0.1 degree and lattice coordinates are coordinates in   *)
(* tenths of a degree measured from (LonOrigin, LatOrigin).                *)
(***************************************************************************)
EXTENDS Integers, Sequences, FiniteSets, TLC

GridN == 3          \* cells per side of the modelled window
NumCounties == 2    \* records in counties.shp
MaxRequests == 2    \* checkAddress invocations per page visit

Cells == (0..(GridN - 1)) \X (0..(GridN - 1))
Elems == (0..(2 * GridN)) \X (0..(2 * GridN))

Rect(i0, i1, j0, j1) == {c \in Cells : c[1] \in i0..i1 /\ c[2] \in j0..j1}

\* ------------------------------------------------------------- shapely

\* The closed point set covered by a set of cells.
Closure(faces) ==
  {e \in Elems : \E f \in faces : /\ e[1] \in (2 * f[1])..(2 * f[1] + 2)
                                  /\ e[2] \in (2 * f[2])..(2 * f[2] + 2)}

\* A geometry: its cells (the area part), the lower-dimensional elements
\* not on the boundary of the area part, the value of is_valid, and whether
\* it is the output of buffer(0).
Geom(faces, low, valid, repaired) ==
  [faces |-> faces, low |-> low, valid |-> valid, repaired |-> repaired]

Polygon(faces) == Geom(faces, {}, TRUE, FALSE)

EmptyGeom == Geom({}, {}, TRUE, FALSE)

PointSet(g) == Closure(g.faces) \cup g.low

is_empty(g) == g.faces = {} /\ g.low = {}

area(g) == Cardinality(g.faces)

\* A predicate that holds only when the two areas overlap.
intersects_overlap(a, b) == a.faces \cap b.faces # {}

\* geometry.intersects(other): the two closed point sets share a point.
intersects(a, b) == PointSet(a) \cap PointSet(b) # {}

\* geometry.intersection(other): the common point set, split into its area
\* part and what is left of it (shared boundary segments and points).
intersection(a, b) ==
  LET common == PointSet(a) \cap PointSet(b)
      faces  == {c \in Cells : <<2 * c[1] + 1, 2 * c[2] + 1>> \in common}
  IN  Geom(faces, common \ Closure(faces), TRUE, FALSE)

\* A difference that leaves the geometry unclipped.
difference_unclipped(a, b) == Geom(a.faces, {}, TRUE, FALSE)

\* geometry.difference(other) of a polygonal geometry: the closure of the
\* area of a not covered by b.
difference(a, b) == Geom(a.faces \ b.faces, {}, TRUE, FALSE)

\* geometry.buffer(0): keeps the area part, drops segments and points.
buffer0(g) == Geom(g.faces, {}, TRUE, TRUE)

Adjacent(c, d) ==
  \/ c[1] = d[1] /\ (c[2] = d[2] + 1 \/ d[2] = c[2] + 1)
  \/ c[2] = d[2] /\ (c[1] = d[1] + 1 \/ d[1] = c[1] + 1)

RECURSIVE Grow(_, _)
Grow(seen, faces) ==
  LET more == {c \in faces \ seen : \E d \in seen : Adjacent(c, d)}
  IN  IF more = {} THEN seen ELSE Grow(seen \cup more, faces)

\* Whether the interior of the area part is connected (one polygon).
Connected(faces) ==
  faces # {} /\ Grow({CHOOSE c \in faces : TRUE}, faces) = faces

\* geometry.geom_type
geom_type(g) ==
  IF g.faces # {} /\ g.low = {}
    THEN IF Connected(g.faces) THEN "Polygon" ELSE "MultiPolygon"
    ELSE IF g.faces # {} THEN "GeometryCollection"
    ELSE IF g.low = {} THEN "Polygon"
    ELSE IF \E e \in g.low : e[1] % 2 = 1 \/ e[2] % 2 = 1 THEN "LineString"
    ELSE "Point"

RECURSIVE SumOf(_, _)
SumOf(S, k) ==
  IF S = {} THEN 0
  ELSE LET c == CHOOSE x \in S : TRUE IN (2 * c[k] + 1) + SumOf(S \ {c}, k)

\* A coordinate <<nx, ny, d>> is the point (nx/d, ny/d) in lattice units.
\* geometry.centroid of a polygonal geometry: the area-weighted mean.
centroid(g) == <<SumOf(g.faces, 1), SumOf(g.faces, 2), Cardinality(g.faces)>>

\* geometry.representative_point(): some point inside the geometry; the
\* centres of its cells are the outcomes modelled.
representative_points(g) == {<<2 * c[1] + 1, 2 * c[2] + 1, 1>> : c \in g.faces}

\* Whether coordinate p lies in geometry g (boundary included).
Within(p, g) ==
  \/ \E f \in g.faces : /\ 2 * f[1] * p[3] <= p[1] /\ p[1] <= (2 * f[1] + 2) * p[3]
                        /\ 2 * f[2] * p[3] <= p[2] /\ p[2] <= (2 * f[2] + 2) * p[3]
  \/ \E e \in g.low : p[1] = e[1] * p[3] /\ p[2] = e[2] * p[3]

\* ------------------------------------------------------ input datasets

District(statefp, cd, faces) ==
  [STATEFP |-> statefp, CD119FP |-> cd, geometry |-> Polygon(faces)]

\* fault is what the geometry library does with the record's geometry in a
\* set operation: "none" (exact result), "raise" (the operation throws) or
\* "invalid" (it returns a result whose is_valid is False).
County(name, statefp, faces, fault) ==
  [NAME |-> name, STATEFP |-> statefp, geometry |-> Polygon(faces), fault |-> fault]

RegionL == Rect(0, 2, 0, 0) \cup Rect(0, 0, 0, 2)
RegionSq == Rect(0, 1, 0, 1)

DistrictFiles ==
  { <<District("21", "06", RegionL), District("21", "01", Rect(1, 2, 1, 2))>>,
    <<District("47", "06", Rect(0, 2, 0, 2)), District("21", "06", RegionSq)>>,
    <<District("21", "06", RegionSq), District("21", "06", RegionL)>>,
    <<District("21", "01", RegionL), District("21", "02", RegionSq),
      District("47", "06", RegionSq)>>,
    <<District("47", "06", RegionL)>> }

CountyPool ==
  { County("Fayette", "21", Rect(0, 0, 0, 0), "none"),
    County("Madison", "21", Rect(0, 2, 0, 2), "none"),
    County("Clark", "21", Rect(1, 2, 1, 2), "none"),
    County("Powell", "21", Rect(2, 2, 2, 2), "none"),
    County("Woodford", "21", Rect(1, 2, 0, 1), "none"),
    County("Estill", "21", Rect(2, 2, 0, 2) \cup Rect(0, 2, 2, 2), "none"),
    County("Jessamine", "21", Rect(0, 0, 0, 0) \cup Rect(1, 1, 1, 1), "none"),
    County("Bourbon", "21", Rect(1, 1, 0, 2), "raise"),
    County("Mercer", "21", Rect(0, 1, 0, 0), "invalid"),
    County("Clay", "47", Rect(0, 1, 0, 1), "none") }

\* Sequences of at most n distinct elements of S.
Files(S, n) ==
  UNION {{s \in [1..k -> S] : \A i, j \in 1..k : i # j => s[i] # s[j]} : k \in 0..n}

\* ----------------------------------------------------------- the state

VARIABLES
  districts,         \* gpd.read_file("congress_districts.shp")
  counties,          \* gpd.read_file("counties.shp")
  pc,                \* where create_ky6_map / __main__ stands
  idx,               \* position of the running for loop
  clipped_geom,      \* what line 82 yielded for each intersecting county
  outside_part,      \* what line 161 yielded for each intersecting county
  clipped_counties,  \* rows of the clipped_counties frame
  m,                 \* the folium map: its layers in the order added
  out,               \* what was printed
  saved,             \* index.html was written
  addressInput,      \* value of the address text box
  addressResult,     \* the result box
  map,               \* the script's map variable is set
  currentMarker,     \* the script's currentMarker
  mapMarkers,        \* address markers on the Leaflet map
  resetButton,       \* the Reset Map button is shown
  calls              \* the checkAddress invocations, in order

buildVars == <<districts, counties, pc, idx, clipped_geom, outside_part,
               clipped_counties, m, out, saved>>
pageVars == <<addressInput, addressResult, map, currentMarker, mapMarkers,
              resetButton, calls>>
vars == <<districts, counties, pc, idx, clipped_geom, outside_part,
          clipped_counties, m, out, saved, addressInput, addressResult, map,
          currentMarker, mapMarkers, resetButton, calls>>

\* ------------------------------------------------- create_ky6_map: frames

\* districts[(STATEFP == '21') & (CD119FP == '06')]
IsKy6(d) == d.STATEFP = "21" /\ d.CD119FP = "06"
ky6_district == SelectSeq(districts, IsKy6)

\* districts[STATEFP == '21']['CD119FP'].unique()
IsKy(r) == r.STATEFP = "21"
ky_districts == SelectSeq(districts, IsKy)
available == {ky_districts[i].CD119FP : i \in DOMAIN ky_districts}

ky_counties == SelectSeq(counties, IsKy)

\* ky6_district.geometry.iloc[0]
ky6_geom == ky6_district[1].geometry

IntersectsKy6(c) == intersects(c.geometry, ky6_geom)
intersecting_counties == SelectSeq(ky_counties, IntersectsKy6)

NotIntersectsKy6(c) == ~intersects(c.geometry, ky6_geom)
outside_counties == SelectSeq(ky_counties, NotIntersectsKy6)

Message(msg, name, ids) == [msg |-> msg, name |-> name, ids |-> ids]

NoPoint == <<0, 0, 0>>

Layer(kind, name, geometry, at) ==
  [kind |-> kind, name |-> name, geometry |-> geometry, at |-> at]

\* --------------------------------------------- create_ky6_map: the steps

\* The loop that follows the one over a frame of n rows now at row i.
Step(loop, i, n, after) ==
  IF i < n THEN <<loop, i + 1>> ELSE <<after, 1>>

\* The selection without the early return.
LoadAndFilterNoReturn ==
  /\ pc = "start"
  /\ out' = IF ky6_district = <<>>
              THEN out \o << Message("district not found", "", {}),
                             Message("available districts", "", available) >>
              ELSE out
  /\ pc' = IF ky6_district = <<>> THEN "repair"
           ELSE IF intersecting_counties = <<>> THEN "repair" ELSE "clip"
  /\ idx' = 1
  /\ UNCHANGED <<districts, counties, clipped_geom, outside_part,
                 clipped_counties, m, saved, pageVars>>

\* Lines 54-76: read both files, select the district; without a match print
\* the districts that exist and return None.
LoadAndFilter ==
  /\ pc = "start"
  /\ IF ky6_district = <<>>
       THEN /\ out' = out \o << Message("district not found", "", {}),
                                Message("available districts", "", available) >>
            /\ pc' = "returned"
       ELSE /\ out' = out
            /\ pc' = IF intersecting_counties = <<>> THEN "repair" ELSE "clip"
  /\ idx' = 1
  /\ UNCHANGED <<districts, counties, clipped_geom, outside_part,
                 clipped_counties, m, saved, pageVars>>

\* What a set operation of the library returns for a county: nothing when
\* it throws, else the result with the is_valid the library gives it.
Outcome(county, g) ==
  [raised |-> county.fault = "raise",
   geom   |-> IF county.fault = "raise" THEN EmptyGeom
              ELSE [g EXCEPT !.valid = (county.fault # "invalid")]]

\* Lines 80-91: one round of the clipping loop.
ClipCounty ==
  /\ pc = "clip"
  /\ LET county == intersecting_counties[idx]
         res    == Outcome(county, intersection(county.geometry, ky6_geom))
         nxt    == Step("clip", idx, Len(intersecting_counties), "repair")
     IN  /\ clipped_geom' = Append(clipped_geom, res)
         /\ IF res.raised
              THEN /\ out' = Append(out, Message("error processing", county.NAME, {}))
                   /\ UNCHANGED clipped_counties
              ELSE IF ~is_empty(res.geom) /\ res.geom.valid
                THEN /\ clipped_counties' =
                          Append(clipped_counties, [county EXCEPT !.geometry = res.geom])
                     /\ UNCHANGED out
                ELSE /\ out' = Append(out, Message("skipping: geometry issues", county.NAME, {}))
                     /\ UNCHANGED clipped_counties
         /\ pc' = nxt[1]
         /\ idx' = nxt[2]
  /\ UNCHANGED <<districts, counties, outside_part, m, saved, pageVars>>

\* Lines 94-133: rebuild the frame and buffer(0) its geometry column, which
\* an empty frame does not have (the run ends in an exception); then create
\* the map.
Repair ==
  /\ pc = "repair"
  /\ IF clipped_counties = <<>>
       THEN /\ pc' = "crashed"
            /\ UNCHANGED clipped_counties
       ELSE /\ clipped_counties' =
                 [i \in DOMAIN clipped_counties |->
                    [clipped_counties[i] EXCEPT !.geometry = buffer0(@)]]
            /\ pc' = IF outside_counties = <<>> THEN "outside_part" ELSE "outside"
  /\ idx' = 1
  /\ m' = <<>>
  /\ UNCHANGED <<districts, counties, clipped_geom, outside_part, out, saved, pageVars>>

\* Lines 140-155: one county outside the district, in grey.
AddOutsideCounty ==
  /\ pc = "outside"
  /\ LET county == outside_counties[idx]
         nxt    == Step("outside", idx, Len(outside_counties), "outside_part")
     IN  /\ m' = Append(m, Layer("outside", county.NAME, county.geometry, NoPoint))
         /\ pc' = nxt[1]
         /\ idx' = nxt[2]
  /\ UNCHANGED <<districts, counties, clipped_geom, outside_part,
                 clipped_counties, out, saved, pageVars>>

\* Lines 158-176: the part of one intersecting county outside the district,
\* in grey.
AddOutsidePart ==
  /\ pc = "outside_part"
  /\ LET county == intersecting_counties[idx]
         res    == Outcome(county, difference(county.geometry, ky6_geom))
         nxt    == Step("outside_part", idx, Len(intersecting_counties), "boundary")
     IN  /\ outside_part' = Append(outside_part, res)
         /\ IF res.raised
              THEN /\ out' = Append(out, Message("error adding outside part", county.NAME, {}))
                   /\ UNCHANGED m
              ELSE /\ m' = IF ~is_empty(res.geom)
                             THEN Append(m, Layer("outside_part", county.NAME, res.geom, NoPoint))
                             ELSE m
                   /\ UNCHANGED out
         /\ pc' = nxt[1]
         /\ idx' = nxt[2]
  /\ UNCHANGED <<districts, counties, clipped_geom, clipped_counties, saved, pageVars>>

\* The polygon the boundary layer draws: every selected district record.
boundary_geom ==
  Polygon(UNION {ky6_district[i].geometry.faces : i \in DOMAIN ky6_district})

\* The boundary put under the layers added so far.
AddBoundaryFirst ==
  /\ pc = "boundary"
  /\ m' = <<Layer("boundary", "KY-6", boundary_geom, NoPoint)>> \o m
  /\ pc' = "county"
  /\ idx' = 1
  /\ UNCHANGED <<districts, counties, clipped_geom, outside_part,
                 clipped_counties, out, saved, pageVars>>

\* Lines 179-188: the district boundary.
AddBoundary ==
  /\ pc = "boundary"
  /\ m' = Append(m, Layer("boundary", "KY-6", boundary_geom, NoPoint))
  /\ pc' = "county"
  /\ idx' = 1
  /\ UNCHANGED <<districts, counties, clipped_geom, outside_part,
                 clipped_counties, out, saved, pageVars>>

\* Lines 233-239: where the label goes; no label for other geometry types.
label_points(g) ==
  IF geom_type(g) = "Polygon" THEN {centroid(g)}
  ELSE IF geom_type(g) = "MultiPolygon" THEN representative_points(g)
  ELSE {NoPoint}

\* Lines 191-251: one clipped county and its label.
AddCounty ==
  /\ pc = "county"
  /\ LET county == clipped_counties[idx]
         nxt    == Step("county", idx, Len(clipped_counties), "save")
     IN  /\ IF is_empty(county.geometry)
              THEN /\ out' = Append(out, Message("skipping: invalid geometry", county.NAME, {}))
                   /\ UNCHANGED m
              ELSE /\ \E at \in label_points(county.geometry) :
                        m' = m \o <<Layer("county", county.NAME, county.geometry, NoPoint)>>
                               \o (IF at = NoPoint THEN <<>>
                                   ELSE <<Layer("label", county.NAME, county.geometry, at)>>)
                   /\ UNCHANGED out
         /\ pc' = nxt[1]
         /\ idx' = nxt[2]
  /\ UNCHANGED <<districts, counties, clipped_geom, outside_part,
                 clipped_counties, saved, pageVars>>

\* Lines 429-442: attach the search script, save index.html, list the counties.
Save ==
  /\ pc = "save"
  /\ saved' = TRUE
  /\ out' = out \o <<Message("map created", "", {})>>
                \o [i \in DOMAIN clipped_counties |->
                      Message("in district", clipped_counties[i].NAME, {})]
  /\ pc' = "returned"
  /\ UNCHANGED <<districts, counties, idx, clipped_geom, outside_part,
                 clipped_counties, m, pageVars>>

\* Lines 446-458: what __main__ prints once create_ky6_map has returned.
Main ==
  /\ pc = "returned"
  /\ out' = Append(out, Message("map saved as index.html", "", {}))
  /\ pc' = "exit"
  /\ UNCHANGED <<districts, counties, idx, clipped_geom, outside_part,
                 clipped_counties, m, saved, pageVars>>

Build ==
  \/ LoadAndFilter
  \/ ClipCounty
  \/ Repair
  \/ AddOutsideCounty
  \/ AddOutsidePart
  \/ AddBoundary
  \/ AddCounty
  \/ Save
  \/ Main

\* ------------------------------------------- the address search script

\* The bounds of checkIfInDistrict, in tenths of a degree.
North == 386
South == 374
East == -838
West == -852

\* The window modelled lies around the north-east corner of those bounds.
LatOrigin == North - 4
LonOrigin == East - 4

\* Lines 384-398.
checkIfInDistrict(lat, lon) ==
  lat >= South /\ lat <= North /\ lon >= West /\ lon <= East

\* What the user may type, and String.prototype.trim of it.
AddressTexts == {"", " ", "123 Main St, Lexington, KY"}
trim(a) == IF a = " " THEN "" ELSE a

\* Coordinates <<lat, lon>> the geocoder may answer with.
GeocodeResults ==
  {<<LatOrigin + p[2], LonOrigin + p[1]>> : p \in {<<1, 1>>, <<3, 3>>, <<5, 1>>, <<5, 5>>}}

\* The lattice coordinate of a <<lat, lon>>.
Coordinate(lat, lon) == <<lon - LonOrigin, lat - LatOrigin, 1>>

\* Lines 400-419.
showResult(message, type, call) ==
  [display |-> "block", message |-> message, type |-> type, call |-> call]

\* One checkAddress invocation: where it stands and its locals.
Call(at, data, lat, lon, queried, isInDistrict) ==
  [at |-> at, data |-> data, lat |-> lat, lon |-> lon, queried |-> queried,
   isInDistrict |-> isInDistrict]

\* The user edits the address box.
TypeAddress ==
  /\ saved
  /\ \E a \in AddressTexts : a # addressInput /\ addressInput' = a
  /\ UNCHANGED <<buildVars, addressResult, map, currentMarker, mapMarkers,
                 resetButton, calls>>

\* Lines 283-295: one second after DOMContentLoaded the script finds the map.
FindMap ==
  /\ saved
  /\ ~map
  /\ map' = TRUE
  /\ UNCHANGED <<buildVars, addressInput, addressResult, currentMarker,
                 mapMarkers, resetButton, calls>>

\* Lines 297-311: checkAddress up to its first await.
CheckAddress ==
  /\ saved
  /\ Len(calls) < MaxRequests
  /\ LET k == Len(calls) + 1
     IN  IF trim(addressInput) = ""
           THEN /\ addressResult' = showResult("Please enter an address.", "error", k)
                /\ calls' = Append(calls, Call("returned", "none", 0, 0, FALSE, FALSE))
           ELSE /\ addressResult' = showResult("Checking address...", "loading", k)
                /\ calls' = Append(calls, Call("fetch", "none", 0, 0, FALSE, FALSE))
  /\ UNCHANGED <<buildVars, addressInput, map, currentMarker, mapMarkers, resetButton>>

Marker(id, lat, lon, isInDistrict) ==
  [id |-> id, lat |-> lat, lon |-> lon,
   color |-> IF isInDistrict THEN "green" ELSE "red"]

\* The coordinate branch without the removal of the previous marker.
AnswerNoRemove(k, lat, lon) ==
  LET isInDistrict == checkIfInDistrict(lat, lon)
  IN  /\ calls' = [calls EXCEPT ![k] = Call("returned", "found", lat, lon, TRUE, isInDistrict)]
      /\ addressResult' = IF isInDistrict THEN showResult("YES", "success", k)
                          ELSE showResult("NO", "error", k)
      /\ IF map
           THEN /\ mapMarkers' = mapMarkers \cup {Marker(k, lat, lon, isInDistrict)}
                /\ currentMarker' = k
                /\ resetButton' = TRUE
           ELSE UNCHANGED <<mapMarkers, currentMarker, resetButton>>

\* Lines 319-356: checkAddress from the coordinate on.
Answer(k, lat, lon) ==
  LET isInDistrict == checkIfInDistrict(lat, lon)
  IN  /\ calls' = [calls EXCEPT ![k] = Call("returned", "found", lat, lon, TRUE, isInDistrict)]
      /\ addressResult' = IF isInDistrict THEN showResult("YES", "success", k)
                          ELSE showResult("NO", "error", k)
      /\ IF map
           THEN /\ mapMarkers' =
                     {x \in mapMarkers : x.id # currentMarker}
                       \cup {Marker(k, lat, lon, isInDistrict)}
                /\ currentMarker' = k
                /\ resetButton' = TRUE
           ELSE UNCHANGED <<mapMarkers, currentMarker, resetButton>>

\* Lines 314-317.
NotFound(k) ==
  /\ calls' = [calls EXCEPT ![k] = Call("returned", "empty", 0, 0, FALSE, FALSE)]
  /\ addressResult' = showResult("Address not found.", "error", k)
  /\ UNCHANGED <<mapMarkers, currentMarker, resetButton>>

\* A catch block that answers NO.
CaughtAsNo(k) ==
  /\ calls' = [calls EXCEPT ![k] = Call("returned", "error", 0, 0, FALSE, FALSE)]
  /\ addressResult' = showResult("NO", "error", k)
  /\ UNCHANGED <<mapMarkers, currentMarker, resetButton>>

\* Lines 358-361.
Caught(k) ==
  /\ calls' = [calls EXCEPT ![k] = Call("returned", "error", 0, 0, FALSE, FALSE)]
  /\ addressResult' = showResult("Error checking address.", "error", k)
  /\ UNCHANGED <<mapMarkers, currentMarker, resetButton>>

\* Lines 311-361: the geocoding request of invocation k completes (it fails,
\* answers with no match, or answers with a coordinate) and checkAddress
\* runs to its end.
FetchReturns ==
  /\ \E k \in DOMAIN calls :
       /\ calls[k].at = "fetch"
       /\ \/ Caught(k)
          \/ NotFound(k)
          \/ \E c \in GeocodeResults : Answer(k, c[1], c[2])
  /\ UNCHANGED <<buildVars, addressInput, map>>

\* Lines 364-382.
ResetMap ==
  /\ saved
  /\ resetButton
  /\ IF currentMarker # 0 /\ map
       THEN /\ mapMarkers' = {x \in mapMarkers : x.id # currentMarker}
            /\ currentMarker' = 0
       ELSE UNCHANGED <<mapMarkers, currentMarker>>
  /\ addressInput' = ""
  /\ addressResult' = [addressResult EXCEPT !.display = "none"]
  /\ resetButton' = FALSE
  /\ UNCHANGED <<buildVars, map, calls>>

Page ==
  \/ TypeAddress
  \/ FindMap
  \/ CheckAddress
  \/ FetchReturns
  \/ ResetMap

InitBuild ==
  /\ pc = "start"
  /\ idx = 1
  /\ clipped_geom = <<>>
  /\ outside_part = <<>>
  /\ clipped_counties = <<>>
  /\ m = <<>>
  /\ out = <<>>
  /\ saved = FALSE

InitPage ==
  /\ addressInput = ""
  /\ addressResult = [display |-> "none", message |-> "", type |-> "", call |-> 0]
  /\ map = FALSE
  /\ currentMarker = 0
  /\ mapMarkers = {}
  /\ resetButton = FALSE
  /\ calls = <<>>

Init ==
  /\ districts \in DistrictFiles
  /\ counties \in Files(CountyPool, NumCounties)
  /\ InitBuild
  /\ InitPage

Spec == Init /\ [][Build]_vars

\* The saved page in use: the build over a few datasets, then the script.
PageFiles ==
  { <<County("Madison", "21", Rect(0, 2, 0, 2), "none"),
      County("Powell", "21", Rect(2, 2, 2, 2), "none")>>,
    <<County("Fayette", "21", Rect(0, 0, 0, 0), "none"),
      County("Estill", "21", Rect(2, 2, 0, 2) \cup Rect(0, 2, 2, 2), "none")>> }

PageInit ==
  /\ districts \in {d \in DistrictFiles : d[1].CD119FP = "06"}
  /\ counties \in PageFiles
  /\ InitBuild
  /\ InitPage

Next == Build \/ Page

PageSpec == PageInit /\ [][Next]_vars


\* ------------------------------------------------------------- properties

\* The build got past the loop over outside_counties.
Composing == pc \in {"outside_part", "boundary", "county", "save"}
Built == saved /\ pc \in {"returned", "exit"}

HasLayer(kind, name) == \E i \in DOMAIN m : m[i].kind = kind /\ m[i].name = name

\* Whether <<lat, lon>> lies in the polygon the boundary layer draws.
InDrawnRegion(lat, lon) ==
  \E i \in DOMAIN m : m[i].kind = "boundary" /\ Within(Coordinate(lat, lon), m[i].geometry)

\* C1: every answer of checkIfInDistrict equals whether the point lies in
\* the Region polygon drawn as the boundary layer.
C1_ContainmentConsistency ==
  \A k \in DOMAIN calls :
    calls[k].queried => (calls[k].isInDistrict <=> InDrawnRegion(calls[k].lat, calls[k].lon))

\* C2: a county is in the outside set (drawn whole, in grey, by the first
\* loop) exactly when its intersection with the district is empty, and the
\* clipping loop never gets an empty intersection.
C2_DisjointIffClipEmpty ==
  /\ (Composing \/ Built) =>
       \A i \in DOMAIN ky_counties :
         HasLayer("outside", ky_counties[i].NAME)
           <=> is_empty(intersection(ky_counties[i].geometry, ky6_geom))
  /\ \A i \in DOMAIN clipped_geom :
       ~clipped_geom[i].raised => ~is_empty(clipped_geom[i].geom)

C2_Witness ==
  /\ Built
  /\ \E i \in DOMAIN m : m[i].kind = "outside"
  /\ \E i \in DOMAIN clipped_geom :
       ~clipped_geom[i].raised /\ clipped_geom[i].geom.faces = {}

\* C3: a county whose intersection with the district has zero area is
\* drawn whole by the loop over the outside set and never enters the
\* clipping loop.
C3_TouchingIsDisjoint ==
  (Composing \/ Built) =>
    \A i \in DOMAIN ky_counties :
      area(intersection(ky_counties[i].geometry, ky6_geom)) = 0 =>
        /\ \E j \in DOMAIN m : m[j] = Layer("outside", ky_counties[i].NAME,
                                             ky_counties[i].geometry, NoPoint)
        /\ \A j \in DOMAIN intersecting_counties :
             intersecting_counties[j] # ky_counties[i]

\* The classification of section 4.2 with the predicate of line 76.
classify(region, county) ==
  IF ~intersects(county.geometry, region) THEN "DISJOINT"
  ELSE IF area(intersection(county.geometry, region)) = area(county.geometry)
    THEN "CONTAINED"
  ELSE "PARTIAL"

\* C4: for a PARTIAL county the intersection (line 82) and the difference
\* (line 161) are both non-empty, share no area, and their areas add up to
\* the county's area.
C4_PartialSplit ==
  \A i \in DOMAIN outside_part :
    LET county == intersecting_counties[i]
        cin    == clipped_geom[i]
        cout   == outside_part[i]
    IN  (classify(ky6_geom, county) = "PARTIAL" /\ ~cin.raised /\ ~cout.raised) =>
          /\ ~is_empty(cin.geom)
          /\ ~is_empty(cout.geom)
          /\ cin.geom.faces \cap cout.geom.faces = {}
          /\ area(cin.geom) + area(cout.geom) = area(county.geometry)

\* The scenario of the specification: half of the county inside.
C4_Witness ==
  \E i \in DOMAIN outside_part :
    /\ classify(ky6_geom, intersecting_counties[i]) = "PARTIAL"
    /\ ~clipped_geom[i].raised /\ ~outside_part[i].raised
    /\ area(clipped_geom[i].geom) = 2
    /\ area(outside_part[i].geom) = 2

Rank(kind) ==
  CASE kind = "outside" -> 1
    [] kind = "outside_part" -> 2
    [] kind = "boundary" -> 3
    [] kind = "county" -> 4
    [] kind = "label" -> 4

\* C5: the layers of the map are in draw order: whole outside counties,
\* then outside parts, then the boundary, then clipped counties and labels.
C5_DrawOrder ==
  \A i, j \in DOMAIN m : i < j => Rank(m[i].kind) <= Rank(m[j].kind)

C5_Witness ==
  /\ Built
  /\ \A r \in 1..4 : \E i \in DOMAIN m : Rank(m[i].kind) = r
  /\ \E i \in DOMAIN m : m[i].kind = "label"

\* C6: every label is placed inside the clipped geometry it labels.
C6_AnchorInside ==
  \A i \in DOMAIN m : m[i].kind = "label" => Within(m[i].at, m[i].geometry)

\* A clip of some county threw, or gave an empty or invalid result.
ClipFailed(i) ==
  \/ clipped_geom[i].raised
  \/ ~clipped_geom[i].geom.valid
  \/ is_empty(buffer0(clipped_geom[i].geom))

\* The layers a county without a fault gets on its own.
LayersAlone(county) ==
  IF ~intersects(county.geometry, ky6_geom)
    THEN {Layer("outside", county.NAME, county.geometry, NoPoint)}
    ELSE {Layer("outside_part", county.NAME, difference(county.geometry, ky6_geom), NoPoint) :
            x \in {y \in {1} : ~is_empty(difference(county.geometry, ky6_geom))}}
         \cup
         {Layer("county", county.NAME, buffer0(intersection(county.geometry, ky6_geom)), NoPoint) :
            x \in {y \in {1} : area(intersection(county.geometry, ky6_geom)) > 0}}

\* C7: a county whose clip fails does not stop the run, every other county
\* gets the layers it gets on its own, and every intersecting county
\* without a layer in the district has a message that names it.
C7_FailureIsolation ==
  /\ (\E i \in DOMAIN clipped_geom : ClipFailed(i)) => pc # "crashed"
  /\ Built =>
       /\ \A i \in DOMAIN ky_counties :
            ky_counties[i].fault = "none" =>
              {m[j] : j \in {x \in DOMAIN m : /\ m[x].name = ky_counties[i].NAME
                                              /\ m[x].kind \in {"outside", "outside_part", "county"}}}
                = LayersAlone(ky_counties[i])
       /\ \A i \in DOMAIN intersecting_counties :
            ~HasLayer("county", intersecting_counties[i].NAME) =>
              \E j \in DOMAIN out : out[j].name = intersecting_counties[i].NAME

\* C8: every clip result on the map went through buffer(0), and a clip
\* result that is not valid is kept and repaired.
C8_ClipsRepaired ==
  /\ \A i \in DOMAIN m :
       m[i].kind \in {"outside_part", "county"} => m[i].geometry.repaired
  /\ (Composing \/ Built) =>
       \A i \in DOMAIN clipped_geom :
         (~clipped_geom[i].raised /\ area(clipped_geom[i].geom) > 0) =>
           \E j \in DOMAIN clipped_counties :
             clipped_counties[j].NAME = intersecting_counties[i].NAME

\* C9: without a matching district record nothing is clipped, no layer is
\* made, nothing is saved, and the Kentucky districts of the file are listed.
C9_MissingRegionAborts ==
  (ky6_district = <<>> /\ pc # "start") =>
    /\ pc \in {"returned", "exit"}
    /\ clipped_geom = <<>> /\ outside_part = <<>> /\ clipped_counties = <<>>
    /\ m = <<>>
    /\ ~saved
    /\ \E i \in DOMAIN out :
         /\ out[i].msg = "available districts"
         /\ out[i].ids = {districts[j].CD119FP :
                            j \in {x \in DOMAIN districts : districts[x].STATEFP = "21"}}

C9_Witness ==
  /\ ky6_district = <<>>
  /\ pc = "exit"
  /\ \E i \in DOMAIN out : out[i].msg = "available districts" /\ out[i].ids = {"01", "02"}

\* C10: an invocation without a coordinate (empty address, no match, failed
\* request) runs no containment query, shows no YES/NO and adds no marker;
\* the YES/NO in the result box belongs to an invocation that got one.
C10_NoCoordinateNoAnswer ==
  /\ \A k \in DOMAIN calls :
       calls[k].data # "found" =>
         /\ ~calls[k].queried
         /\ \A x \in mapMarkers : x.id # k
         /\ addressResult.call = k => addressResult.message \notin {"YES", "NO"}
  /\ addressResult.message \in {"YES", "NO"} =>
       /\ addressResult.call \in DOMAIN calls
       /\ calls[addressResult.call].data = "found"
       /\ calls[addressResult.call].queried

C10_Witness ==
  /\ \E k \in DOMAIN calls :
       /\ calls[k].at = "returned" /\ calls[k].data = "error"
       /\ addressResult = showResult("Error checking address.", "error", k)
  /\ \E x \in mapMarkers : calls[x.id].data = "found"

\* C11: whatever the order in which checkAddress invocations start, their
\* geocoding requests complete and resetMap runs, the map holds at most one
\* address marker, currentMarker is that marker, and currentMarker is null
\* exactly when the map holds none.
C11_OneTrackedMarker ==
  /\ Cardinality(mapMarkers) <= 1
  /\ \A x \in mapMarkers : x.id = currentMarker
  /\ currentMarker = 0 <=> mapMarkers = {}

\* Two invocations were in flight together and the first one started
\* completed last: its marker is the one on the map.
C11_Witness ==
  /\ map
  /\ Len(calls) = 2
  /\ \A k \in DOMAIN calls : calls[k].at = "returned" /\ calls[k].data = "found"
  /\ currentMarker = 1
  /\ \E x \in mapMarkers : x.id = 1
  /\ addressResult.call = 1

====
